---- MODULE Spec2Model ----
(***************************************************************************)
(* Model of the Taiwan AQI monitor (src/main.py): main -> AQIMonitor.run,  *)
(* whose stages are fetch_aqi_data, process_data, create_map, save_map and *)
(* save_data.                                                              *)
(*                                                                         *)
(* Representation.  A JSON scalar / DataFrame cell is a record [t, s, n]:  *)
(* t is its type, s the characters of a string, n the value of a number.   *)
(* A JSON body is a record [kind, items, has_records, rkind].  Python None *)
(* is the JSON value null.  Coordinates are degrees * 10^4, distances are  *)
(* kilometres * 100 and the marker radius is kept * 50, so that every      *)
(* number of the program is an integer here.  Of the ten allow-listed      *)
(* columns the model carries sitename, county and aqi; the other numeric   *)
(* columns are coerced exactly like aqi and are read by no later stage.    *)
(***************************************************************************)
EXTENDS Integers, Sequences, FiniteSets, TLC

VARIABLES
    api_key,        \* environment: MOENV_API_KEY is set
    api_response,   \* what the HTTP GET produced
    pc,             \* position of main/run
    data,           \* self.data
    df,             \* run's local df (result of process_data)
    map,            \* self.map
    html_file,      \* outputs/taiwan_aqi_map.html
    csv_file,       \* outputs/aqi_data.csv
    requests,       \* number of HTTP requests issued
    calls,          \* the stages main/run has started, in order
    ret,            \* what each stage returned to run
    result,         \* how run ended
    first           \* the finished first run, when the pipeline is run twice

vars == <<api_key, api_response, pc, data, df, map, html_file, csv_file,
          requests, calls, ret, result, first>>

\* Longest list of records the modelled API answers with.
MaxLen == 2

----------------------------------------------------------------------------
(* Cells *)

Absent   == [t |-> "absent", s |-> <<>>, n |-> 0]   \* key not in the raw record
NoColumn == [t |-> "nocolumn", s |-> <<>>, n |-> 0] \* the DataFrame has no such column
NaN      == [t |-> "nan", s |-> <<>>, n |-> 0]
JNull    == [t |-> "null", s |-> <<>>, n |-> 0]     \* None
JStr(chars) == [t |-> "string", s |-> chars, n |-> 0]
JNum(v)  == [t |-> "number", s |-> <<>>, n |-> v]

Digits == <<"0", "1", "2", "3", "4", "5", "6", "7", "8", "9">>

IsDigit(c) == \E i \in 1..10 : Digits[i] = c

DigitValue(c) == (CHOOSE i \in 1..10 : Digits[i] = c) - 1

RECURSIVE ParseDigits(_, _)
ParseDigits(chars, acc) ==
    IF chars = <<>> THEN acc
    ELSE ParseDigits(Tail(chars), 10 * acc + DigitValue(Head(chars)))

\* pd.to_numeric(x, errors='coerce') on one cell: a number stays, a string
\* of an optionally signed run of digits is parsed, anything else is NaN.
to_numeric(x) ==
    IF x.t = "number" THEN x
    ELSE IF x.t # "string" \/ x.s = <<>> THEN NaN
    ELSE LET neg  == Head(x.s) = "-"
             body == IF neg THEN Tail(x.s) ELSE x.s
         IN  IF body = <<>> \/ \E i \in 1..Len(body) : ~IsDigit(body[i])
             THEN NaN
             ELSE JNum(IF neg THEN 0 - ParseDigits(body, 0) ELSE ParseDigits(body, 0))

\* pd.notna
notna(x) == x.t \notin {"nan", "null", "absent"}

----------------------------------------------------------------------------
(* Static tables *)

DaAn    == <<"D", "a", "a", "n">>                 \* "大安"
BanQiao == <<"B", "a", "n", "q", "i", "a", "o">>  \* "板橋"
Unknown == <<"X">>                                \* "未知測站": not in the table
TaipeiCity == <<"T", "P", "E">>                   \* "臺北市"

taipei_station == <<250478, 1215170>>

station_coordinates ==
    (DaAn :> <<250263, 1215438>>) @@ (BanQiao :> <<250167, 1214624>>)

\* self.station_coordinates.get(x, [None, None])
coordinates_get(x) ==
    IF x.t = "string" /\ x.s \in DOMAIN station_coordinates
    THEN <<JNum(station_coordinates[x.s][1]), JNum(station_coordinates[x.s][2])>>
    ELSE <<JNull, JNull>>

\* geopy's geodesic(...).kilometers, rounded to 2 places, for the table's points
geodesic_km ==
    (<<250263, 1215438>> :> 360) @@ (<<250167, 1214624>> :> 650)

calculate_distance_to_taipei(lat, lon) ==
    IF lat.t = "number" /\ lon.t = "number" /\ <<lat.n, lon.n>> \in DOMAIN geodesic_km
    THEN JNum(geodesic_km[<<lat.n, lon.n>>])
    ELSE JNull

----------------------------------------------------------------------------
(* The inputs the environment can present *)

\* the aqi field of a raw record: missing, not a number, and the values on
\* either side of the two thresholds
RawAqi == {Absent, JStr(<<"N", "D">>), JStr(<<"5", "0">>), JStr(<<"5", "1">>),
           JStr(<<"1", "0", "1">>)}

RawRecords ==
    [sitename : {JStr(DaAn), JStr(Unknown), Absent},
     county   : {JStr(TaipeiCity), Absent},
     aqi      : RawAqi]

RecordLists == UNION {[1..k -> RawRecords] : k \in 0..MaxLen}

JArray(L) == [kind |-> "array", items |-> L, has_records |-> FALSE, rkind |-> "none"]
JObject(has, rk, L) == [kind |-> "object", items |-> L, has_records |-> has, rkind |-> rk]
JOther(k, has) == [kind |-> k, items |-> <<>>, has_records |-> has, rkind |-> "none"]
None == JOther("null", FALSE)

Bodies ==
    {JArray(L) : L \in RecordLists}
    \cup {JObject(TRUE, "array", L) : L \in RecordLists}
    \cup {JObject(TRUE, rk, <<>>) : rk \in {"null", "number", "string"}}
    \cup {JObject(FALSE, "none", <<>>)}
    \cup {JOther(k, FALSE) : k \in {"null", "number", "bool", "string"}}
    \cup {JOther("string", TRUE)}

HttpResponse(tr, st, ok, b) == [transport |-> tr, status |-> st, json_ok |-> ok, body |-> b]

Responses ==
    {HttpResponse(tr, 0, FALSE, None) : tr \in {"timeout", "connection_error"}}
    \cup {HttpResponse("ok", st, FALSE, None) : st \in {404, 500}}
    \cup {HttpResponse("ok", 500, TRUE, JArray(L)) : L \in [1..1 -> RawRecords]}
    \cup {HttpResponse("ok", 200, FALSE, None)}
    \cup {HttpResponse("ok", 200, TRUE, b) : b \in Bodies}

----------------------------------------------------------------------------
(* fetch_aqi_data *)

\* data['records'] of an object
Records(d) == [kind |-> d.rkind, items |-> d.items, has_records |-> FALSE, rkind |-> "none"]

\* len(x) is defined
HasLen(x) == x.kind \in {"array", "object", "string"}

Outcome(r, e, d) == [ret |-> r, exc |-> e, data |-> d]

\* raise_for_status left out
fetch_aqi_data_any_status(self_data, resp) ==
    IF resp.transport # "ok" \/ ~resp.json_ok THEN Outcome("False", "none", self_data)
    ELSE IF resp.body.kind = "array" THEN Outcome("True", "none", resp.body)
    ELSE Outcome("False", "none", self_data)

\* the object stored whole instead of its records
fetch_aqi_data_keeps_wrapper(self_data, resp) ==
    IF resp.transport # "ok" \/ resp.status \notin 200..299 \/ ~resp.json_ok
    THEN Outcome("False", "none", self_data)
    ELSE Outcome("True", "none", resp.body)

\* The except clauses catch RequestException (transport failures, the
\* HTTPError of raise_for_status, the JSONDecodeError of response.json) and
\* nothing else: a TypeError from the shape tests leaves the method.
fetch_aqi_data(self_data, resp) ==
    IF resp.transport # "ok" THEN Outcome("False", "none", self_data)
    ELSE IF resp.status \notin 200..299 THEN Outcome("False", "none", self_data)
    ELSE IF ~resp.json_ok THEN Outcome("False", "none", self_data)
    ELSE LET d == resp.body IN
        IF d.kind = "array" THEN Outcome("True", "none", d)
        ELSE IF d.kind \notin {"object", "string"}
            THEN Outcome("raised", "TypeError", self_data)    \* 'records' in data
        ELSE IF d.has_records
            THEN IF d.kind = "string"
                 THEN Outcome("raised", "TypeError", self_data) \* data['records']
                 ELSE IF HasLen(Records(d))
                      THEN Outcome("True", "none", Records(d))
                      ELSE Outcome("raised", "TypeError", Records(d)) \* len(self.data)
        ELSE Outcome("False", "none", self_data)

----------------------------------------------------------------------------
(* process_data *)

columns_to_keep == {"sitename", "county", "aqi"}

\* pd.DataFrame(list of dicts): a column for every key some record carries
DataFrameColumns(items) ==
    {c \in columns_to_keep : \E i \in 1..Len(items) : items[i][c] # Absent}

\* the cell of column c in the row built from rec: NaN where rec lacks the key
Cell(rec, c, cols) ==
    IF c \notin cols THEN NoColumn
    ELSE IF rec[c] = Absent THEN NaN
    ELSE rec[c]

\* lines 143-171: the projected row with its coordinates, numerics coerced
Row(i, rec, cols) ==
    LET name == Cell(rec, "sitename", cols) IN
    [idx       |-> i - 1,
     sitename  |-> name,
     county    |-> Cell(rec, "county", cols),
     aqi       |-> IF "aqi" \in cols THEN to_numeric(Cell(rec, "aqi", cols)) ELSE NoColumn,
     latitude  |-> to_numeric(coordinates_get(name)[1]),
     longitude |-> to_numeric(coordinates_get(name)[2]),
     distance_to_taipei |-> NoColumn]

HasCoordinates(row) == notna(row.latitude) /\ notna(row.longitude)

\* dropna left out: every row is kept
dropna_keeps_all(rows) == rows

\* drop_duplicates on sitename in place of dropna on the coordinates
dropna_drops_duplicates(rows) ==
    LET kept == SelectSeq(rows, HasCoordinates) IN
    IF Len(kept) > 1 /\ kept[1].sitename = kept[2].sitename THEN <<kept[1]>> ELSE kept

\* df.dropna(subset=['latitude', 'longitude'])
dropna(rows) == SelectSeq(rows, HasCoordinates)

\* df['distance_to_taipei'] = df.apply(...)
with_distance(rows) ==
    [i \in 1..Len(rows) |->
        [rows[i] EXCEPT !.distance_to_taipei =
            calculate_distance_to_taipei(rows[i].latitude, rows[i].longitude)]]

Frame(o, e, c, r) == [out |-> o, exc |-> e, cols |-> c, rows |-> r]

\* `not self.data`
Falsy(d) == d.kind = "null" \/ (d.kind = "array" /\ d.items = <<>>)

\* None for no data; the exception pandas raises; or the frame.  A frame all
\* of whose rows were dropped is returned empty (apply on an empty frame
\* gives an empty column), and run then reports failure.  A non-list
\* self.data (the records of an object that are a non-empty string) makes
\* pd.DataFrame raise.
process_data(self_data) ==
    IF Falsy(self_data) THEN Frame("None", "none", {}, <<>>)
    ELSE IF self_data.kind # "array"
        THEN Frame("raised", "ValueError", {}, <<>>)          \* pd.DataFrame(...)
    ELSE LET items == self_data.items
             cols  == DataFrameColumns(items)
         IN  IF "sitename" \notin cols
             THEN Frame("raised", "KeyError", {}, <<>>)       \* df['sitename']
             ELSE Frame("df", "none",
                        cols \cup {"latitude", "longitude", "distance_to_taipei"},
                        with_distance(dropna([i \in 1..Len(items) |-> Row(i, items[i], cols)])))

----------------------------------------------------------------------------
(* Classifier and create_map *)

\* the first threshold compared with < instead of <=
get_aqi_color_strict(aqi_value) ==
    IF aqi_value < 50 THEN "#00E400"
    ELSE IF aqi_value <= 100 THEN "#FFFF00"
    ELSE "#FF0000"

get_aqi_color(aqi_value) ==
    IF aqi_value <= 50 THEN "#00E400"
    ELSE IF aqi_value <= 100 THEN "#FFFF00"
    ELSE "#FF0000"

get_aqi_level(aqi_value) ==
    IF aqi_value <= 50 THEN "Good"               \* '良好'
    ELSE IF aqi_value <= 100 THEN "Moderate"     \* '中等'
    ELSE "Unhealthy"                             \* '不健康'

BaseRadius == 8
RadiusDivisor == 50

\* radius = 8 + aqi_value / 50, kept multiplied by 50
radius_x50(aqi_value) == BaseRadius * RadiusDivisor + aqi_value

\* row['aqi'] if pd.notna(row['aqi']) else 0
marker_aqi(row) == IF notna(row.aqi) THEN row.aqi.n ELSE 0

CircleMarker(row) ==
    LET aqi_value == marker_aqi(row) IN
    [idx        |-> row.idx,
     location   |-> <<row.latitude.n, row.longitude.n>>,
     aqi_value  |-> aqi_value,
     fillColor  |-> get_aqi_color(aqi_value),
     level      |-> get_aqi_level(aqi_value),
     radius_x50 |-> radius_x50(aqi_value),
     sitename   |-> row.sitename,
     county     |-> row.county,
     distance_to_taipei |-> row.distance_to_taipei]

RECURSIVE Sum(_, _)
Sum(rows, field) ==
    IF rows = <<>> THEN 0 ELSE rows[1][field].n + Sum(Tail(rows), field)

MapOutcome(o, e, m) == [out |-> o, exc |-> e, map |-> m]

create_map(self_map, f) ==
    IF f.rows = <<>> THEN MapOutcome("None", "none", self_map)
    ELSE LET m0 == [set       |-> TRUE,
                    center    |-> <<Sum(f.rows, "latitude") \div Len(f.rows),
                                    Sum(f.rows, "longitude") \div Len(f.rows)>>,
                    markers   |-> <<>>,
                    reference |-> <<0, 0>>]
         IN  IF "aqi" \notin f.cols \/ "county" \notin f.cols
             THEN MapOutcome("raised", "KeyError", m0)         \* row['aqi'], row['county']
             ELSE MapOutcome("map", "none",
                    [m0 EXCEPT !.markers = [i \in 1..Len(f.rows) |-> CircleMarker(f.rows[i])],
                               !.reference = taipei_station])

----------------------------------------------------------------------------
(* save_map and save_data *)

FileOutcome(r, e, file) == [ret |-> r, exc |-> e, file |-> file]

\* makedirs_ok: os.makedirs succeeds; write_ok: self.map.save succeeds
save_map(self_map, old, makedirs_ok, write_ok) ==
    IF ~self_map.set THEN FileOutcome("False", "none", old)
    ELSE IF ~makedirs_ok THEN FileOutcome("raised", "OSError", old)
    ELSE IF ~write_ok THEN FileOutcome("False", "none", old)
    ELSE FileOutcome("True", "none", [written |-> TRUE, content |-> self_map.markers])

\* to_csv writes a missing value as an empty field
CsvCell(x) == IF x.t \in {"nan", "null"} THEN [t |-> "blank", s |-> <<>>, n |-> 0] ELSE x

to_csv(rows) ==
    [i \in 1..Len(rows) |->
        [sitename  |-> CsvCell(rows[i].sitename),
         county    |-> CsvCell(rows[i].county),
         aqi       |-> CsvCell(rows[i].aqi),
         latitude  |-> CsvCell(rows[i].latitude),
         longitude |-> CsvCell(rows[i].longitude),
         distance_to_taipei |-> CsvCell(rows[i].distance_to_taipei)]]

\* makedirs_ok: os.makedirs succeeds; write_ok: df.to_csv succeeds
save_data(self_data, old, makedirs_ok, write_ok) ==
    IF self_data = None THEN FileOutcome("False", "none", old)
    ELSE IF ~makedirs_ok THEN FileOutcome("raised", "OSError", old)
    ELSE LET f == process_data(self_data) IN
        IF f.out = "raised" THEN FileOutcome("False", "none", old)   \* except Exception
        ELSE IF f.out = "None" THEN FileOutcome("None", "none", old) \* falls off the end
        ELSE IF ~write_ok THEN FileOutcome("False", "none", old)
        ELSE FileOutcome("True", "none", [written |-> TRUE, content |-> to_csv(f.rows)])

----------------------------------------------------------------------------
(* State machine *)

Stages == {"fetch_aqi_data", "process_data", "create_map", "save_map", "save_data"}

NoFrame == [out |-> "none", exc |-> "none", cols |-> {}, rows |-> <<>>]
NoMap   == [set |-> FALSE, center |-> <<0, 0>>, markers |-> <<>>, reference |-> <<0, 0>>]
NoFile  == [written |-> FALSE, content |-> <<>>]
NoResponse == HttpResponse("none", 0, FALSE, None)
NoFirst == [done |-> FALSE, data |-> None, df |-> NoFrame, ret |-> "none"]

\* what the API can answer: anything, or, when the program is run again on
\* the same station objects, those objects inside {"records": [...]}
Served ==
    IF first.done
    THEN {[api_response EXCEPT !.body = JObject(TRUE, "array", api_response.body.items)]}
    ELSE Responses

Init ==
    /\ api_key \in BOOLEAN
    /\ api_response = NoResponse
    /\ pc = "main"
    /\ data = None
    /\ df = NoFrame
    /\ map = NoMap
    /\ html_file = NoFile
    /\ csv_file = NoFile
    /\ requests = 0
    /\ calls = <<>>
    /\ ret = [s \in Stages |-> "none"]
    /\ result = "none"
    /\ first = NoFirst

\* main: the API-key check, then AQIMonitor() and run()
Main ==
    /\ pc = "main"
    /\ calls' = Append(calls, "config")
    /\ pc' = IF api_key THEN "fetch" ELSE "exit"
    /\ UNCHANGED <<api_key, api_response, data, df, map, html_file, csv_file,
                   requests, ret, result, first>>

\* run: self.fetch_aqi_data() and the check of what it returned
Fetch ==
    /\ pc = "fetch"
    /\ \E resp \in Served :
        LET r == fetch_aqi_data(data, resp) IN
        /\ api_response' = resp
        /\ data' = r.data
        /\ ret' = [ret EXCEPT !["fetch_aqi_data"] = r.ret]
        /\ pc' = IF r.ret = "True" THEN "process" ELSE "done"
        /\ result' = IF r.ret = "True" THEN result
                     ELSE IF r.ret = "raised" THEN "raised" ELSE "False"
    /\ requests' = requests + 1
    /\ calls' = Append(calls, "fetch_aqi_data")
    /\ UNCHANGED <<api_key, df, map, html_file, csv_file, first>>

\* run: df = self.process_data() and the check of df
Process ==
    /\ pc = "process"
    /\ LET f == process_data(data) IN
        /\ df' = f
        /\ ret' = [ret EXCEPT !["process_data"] = f.out]
        /\ pc' = IF f.out = "df" /\ f.rows # <<>> THEN "create_map" ELSE "done"
        /\ result' = IF f.out = "raised" THEN "raised"
                     ELSE IF f.out = "None" \/ f.rows = <<>> THEN "False"
                     ELSE result
    /\ calls' = Append(calls, "process_data")
    /\ UNCHANGED <<api_key, api_response, data, map, html_file, csv_file, requests, first>>

\* run: aqi_map = self.create_map(df) and the check of aqi_map
CreateMap ==
    /\ pc = "create_map"
    /\ LET m == create_map(map, df) IN
        /\ map' = m.map
        /\ ret' = [ret EXCEPT !["create_map"] = m.out]
        /\ pc' = IF m.out = "map" THEN "save_map" ELSE "done"
        /\ result' = IF m.out = "raised" THEN "raised"
                     ELSE IF m.out = "None" THEN "False"
                     ELSE result
    /\ calls' = Append(calls, "create_map")
    /\ UNCHANGED <<api_key, api_response, data, df, html_file, csv_file, requests, first>>

\* run: self.save_map(), its result discarded
SaveMap ==
    /\ pc = "save_map"
    /\ \E makedirs_ok \in BOOLEAN, write_ok \in BOOLEAN :
        LET r == save_map(map, html_file, makedirs_ok, write_ok) IN
        /\ html_file' = r.file
        /\ ret' = [ret EXCEPT !["save_map"] = r.ret]
        /\ pc' = IF r.ret = "raised" THEN "done" ELSE "save_data"
        /\ result' = IF r.ret = "raised" THEN "raised" ELSE result
    /\ calls' = Append(calls, "save_map")
    /\ UNCHANGED <<api_key, api_response, data, df, map, csv_file, requests, first>>

\* run: self.save_data(), its result discarded, then return True
SaveData ==
    /\ pc = "save_data"
    /\ \E makedirs_ok \in BOOLEAN, write_ok \in BOOLEAN :
        LET r == save_data(data, csv_file, makedirs_ok, write_ok) IN
        /\ csv_file' = r.file
        /\ ret' = [ret EXCEPT !["save_data"] = r.ret]
        /\ result' = IF r.ret = "raised" THEN "raised" ELSE "True"
    /\ pc' = "done"
    /\ calls' = Append(calls, "save_data")
    /\ UNCHANGED <<api_key, api_response, data, df, map, html_file, requests, first>>

Next == Main \/ Fetch \/ Process \/ CreateMap \/ SaveMap \/ SaveData

Spec == Init /\ [][Next]_vars

----------------------------------------------------------------------------
(* The program run a second time, the API now wrapping the same station    *)
(* objects in {"records": [...]}                                           *)

Rerun ==
    /\ pc \in {"create_map", "done"}
    /\ ret["process_data"] # "none"
    /\ api_response.body.kind = "array"
    /\ ~first.done
    /\ first' = [done |-> TRUE, data |-> data, df |-> df, ret |-> ret["process_data"]]
    /\ pc' = "main"
    /\ data' = None
    /\ df' = NoFrame
    /\ map' = NoMap
    /\ requests' = 0
    /\ calls' = <<>>
    /\ ret' = [s \in Stages |-> "none"]
    /\ result' = "none"
    /\ UNCHANGED <<api_key, api_response, html_file, csv_file>>

InitShapes ==
    /\ Init
    /\ api_key

NextShapes == Main \/ Fetch \/ Process \/ Rerun

SpecShapes == InitShapes /\ [][NextShapes]_vars

----------------------------------------------------------------------------
(* Properties *)

\* the raw record resolves in station_coordinates
Resolves(rec) == rec.sitename.t = "string" /\ rec.sitename.s \in DOMAIN station_coordinates

\* the records fetch stored, as a list (empty when self.data is no list)
Stored == IF data.kind = "array" THEN data.items ELSE <<>>

ResolvedIndexes == {i \in 1..Len(Stored) : Resolves(Stored[i])}

Rendered == map.markers \o html_file.content

\* C1: no record whose sitename is not a key of station_coordinates is among
\* the rows process_data returned, the markers create_map placed or the rows
\* save_data wrote; every such row or marker carries numeric coordinates.
C1_UnresolvedExcluded ==
    /\ \A k \in 1..Len(df.rows) :
        /\ df.rows[k].idx + 1 \in ResolvedIndexes
        /\ df.rows[k].latitude.t = "number" /\ df.rows[k].longitude.t = "number"
    /\ \A k \in 1..Len(Rendered) :
        /\ Rendered[k].idx + 1 \in ResolvedIndexes
        /\ Rendered[k].location = station_coordinates[Rendered[k].sitename.s]
    /\ \A k \in 1..Len(csv_file.content) :
        /\ csv_file.content[k].sitename.t = "string"
        /\ csv_file.content[k].sitename.s \in DOMAIN station_coordinates
        /\ csv_file.content[k].latitude.t = "number"
        /\ csv_file.content[k].longitude.t = "number"
    /\ \A i \in 1..Len(Stored) : ~Resolves(Stored[i]) =>
        /\ \A k \in 1..Len(df.rows) : df.rows[k].idx # i - 1
        /\ \A k \in 1..Len(Rendered) : Rendered[k].idx # i - 1
        /\ Len(csv_file.content) <= Cardinality(ResolvedIndexes)

C1_Witness ==
    /\ pc = "done" /\ html_file.written /\ csv_file.written
    /\ \E i \in 1..Len(Stored) : ~Resolves(Stored[i])
    /\ Len(csv_file.content) = 1 /\ Len(html_file.content) = 1

AQIBand(v) == IF v <= 50 THEN "Good" ELSE IF v <= 100 THEN "Moderate" ELSE "Unhealthy"

BandColor(b) == IF b = "Good" THEN "#00E400" ELSE IF b = "Moderate" THEN "#FFFF00" ELSE "#FF0000"

BandRank(b) == IF b = "Good" THEN 0 ELSE IF b = "Moderate" THEN 1 ELSE 2

AqiRange == (0 - 5) .. 205

\* C2: get_aqi_color and get_aqi_level give the same band, Good up to 50,
\* Moderate above 50 up to 100, Unhealthy above 100, monotonically; 50 is
\* Good, 51 and 100 are Moderate, 101 is Unhealthy.
C2_BandsPartition ==
    /\ \A k \in 1..Len(map.markers) :
        LET m == map.markers[k] IN
        /\ m.level = "Good" <=> m.aqi_value <= 50
        /\ m.level = "Moderate" <=> (50 < m.aqi_value /\ m.aqi_value <= 100)
        /\ m.level = "Unhealthy" <=> m.aqi_value > 100
        /\ m.fillColor = BandColor(m.level)
    /\ \A j, k \in 1..Len(map.markers) :
        map.markers[j].aqi_value <= map.markers[k].aqi_value
            => BandRank(map.markers[j].level) <= BandRank(map.markers[k].level)
    /\ pc = "main" =>
        /\ \A v \in AqiRange :
            /\ get_aqi_level(v) = AQIBand(v)
            /\ get_aqi_color(v) = BandColor(AQIBand(v))
            /\ v + 1 \in AqiRange =>
                BandRank(get_aqi_level(v)) <= BandRank(get_aqi_level(v + 1))
        /\ get_aqi_color(50) = "#00E400" /\ get_aqi_level(50) = "Good"
        /\ get_aqi_color(51) = "#FFFF00" /\ get_aqi_level(51) = "Moderate"
        /\ get_aqi_color(100) = "#FFFF00" /\ get_aqi_level(100) = "Moderate"
        /\ get_aqi_color(101) = "#FF0000" /\ get_aqi_level(101) = "Unhealthy"

C2_Witness ==
    /\ Len(map.markers) = 2
    /\ map.markers[1].aqi_value = 50 /\ map.markers[1].fillColor = "#00E400"
    /\ map.markers[2].aqi_value = 51 /\ map.markers[2].fillColor = "#FFFF00"

\* C3: run ends by returning True or False, never by raising.
C3_RunNeverRaises == pc = "done" => result \in {"True", "False"}

Succeeded(s) ==
    ret[s] = (IF s = "process_data" THEN "df" ELSE IF s = "create_map" THEN "map" ELSE "True")

\* C4: when run returns True every stage reported success, save_map and
\* save_data included, and save_data returns True or False.
C4_TrueMeansAllSucceeded ==
    /\ result = "True" => \A s \in Stages : Succeeded(s)
    /\ ret["save_data"] # "None"

\* C5: whenever save_map was attempted, however it ended, save_data is
\* attempted too.
C5_WritesIndependent ==
    (pc = "done" /\ ret["save_map"] # "none") => ret["save_data"] # "none"

\* the request fails, or its body is neither an array nor an object holding
\* a records array
UnusableResponse(resp) ==
    \/ resp.transport # "ok"
    \/ resp.status \notin 200..299
    \/ ~resp.json_ok
    \/ /\ resp.body.kind # "array"
       /\ ~(resp.body.kind = "object" /\ resp.body.has_records /\ resp.body.rkind = "array")

\* C6: on a network failure, a non-2xx status, malformed JSON or a body of
\* unrecognized shape fetch_aqi_data returns False and leaves self.data unset.
C6_UnusableResponseIsFailure ==
    (ret["fetch_aqi_data"] # "none" /\ UnusableResponse(api_response))
        => (ret["fetch_aqi_data"] = "False" /\ data = None)

StageOrder == <<"config", "fetch_aqi_data", "process_data", "create_map",
                "save_map", "save_data">>

\* C7: the stages start in the order configuration check, fetch, normalize,
\* render, persist, each only after the earlier ones succeeded, with one
\* HTTP request at most and exactly one once fetch has run; without an API
\* key nothing is requested, and after a failed fetch run returns False with
\* nothing normalized, rendered or written.
C7_StagesInOrder ==
    /\ Len(calls) <= Len(StageOrder)
    /\ \A i \in 1..Len(calls) : calls[i] = StageOrder[i]
    /\ requests = (IF Len(calls) >= 2 THEN 1 ELSE 0)
    /\ ~api_key => (requests = 0 /\ pc \in {"main", "exit"})
    /\ Len(calls) >= 3 => Succeeded("fetch_aqi_data")
    /\ Len(calls) >= 4 => (Succeeded("process_data") /\ df.rows # <<>>)
    /\ Len(calls) >= 5 => Succeeded("create_map")
    /\ (Len(calls) >= 2 /\ (api_response.transport # "ok" \/ api_response.status \notin 200..299
                            \/ ~api_response.json_ok)) =>
        /\ pc = "done" /\ result = "False" /\ Len(calls) = 2
        /\ data = None /\ df = NoFrame /\ ~map.set
        /\ ~html_file.written /\ ~csv_file.written

C7_Witness ==
    /\ pc = "done" /\ api_response.status = 500 /\ api_response.json_ok
    /\ result = "False" /\ calls = <<"config", "fetch_aqi_data">>

\* C8: the bare array L and the object {"records": L} leave the same list in
\* self.data and give the same result of process_data.
C8_ShapesAgree ==
    first.done =>
        /\ ret["fetch_aqi_data"] # "none" => (ret["fetch_aqi_data"] = "True" /\ data = first.data)
        /\ ret["process_data"] # "none" => (ret["process_data"] = first.ret /\ df = first.df)

C8_Witness ==
    /\ first.done /\ api_response.body.kind = "object"
    /\ ret["process_data"] = "df" /\ Len(df.rows) = 2 /\ df = first.df

\* C9: the rows process_data returns are the records whose sitename resolves,
\* one row per such record, duplicates kept, in input order.
C9_ExactSubsequence ==
    ret["process_data"] = "df" =>
        /\ Len(df.rows) = Cardinality(ResolvedIndexes)
        /\ \A k \in 1..Len(df.rows) :
            /\ df.rows[k].idx + 1 \in ResolvedIndexes
            /\ df.rows[k].sitename = Stored[df.rows[k].idx + 1].sitename
            /\ "county" \in df.cols =>
                 df.rows[k].county = Cell(Stored[df.rows[k].idx + 1], "county", df.cols)
            /\ "aqi" \in df.cols =>
                 df.rows[k].aqi = to_numeric(Stored[df.rows[k].idx + 1].aqi)
        /\ \A j, k \in 1..Len(df.rows) : j < k => df.rows[j].idx < df.rows[k].idx

C9_Witness ==
    /\ ret["process_data"] = "df" /\ Len(Stored) = 2
    /\ Stored[1].sitename = Stored[2].sitename
    /\ Len(df.rows) = 2 /\ df.rows[1].aqi # df.rows[2].aqi

\* the record's AQI is null: missing or not numeric
NullAqi(rec) == to_numeric(rec.aqi).t # "number"

\* C10: a record with a resolvable station and a null AQI is kept with its
\* distance, rendered as AQI 0 (Good, #00E400, radius 8) and written with a
\* null AQI.
C10_NullAqiRenderedAsZero ==
    \A i \in 1..Len(Stored) : (Resolves(Stored[i]) /\ NullAqi(Stored[i])) =>
        /\ ret["process_data"] # "none" =>
            \E k \in 1..Len(df.rows) :
                df.rows[k].idx = i - 1 /\ df.rows[k].distance_to_taipei.t = "number"
        /\ ret["create_map"] # "none" =>
            \E k \in 1..Len(map.markers) :
                /\ map.markers[k].idx = i - 1
                /\ map.markers[k].aqi_value = 0
                /\ map.markers[k].level = "Good"
                /\ map.markers[k].fillColor = "#00E400"
                /\ map.markers[k].radius_x50 = BaseRadius * RadiusDivisor
        /\ csv_file.written =>
            \E k \in 1..Len(csv_file.content) : csv_file.content[k].aqi.t = "blank"

====
